---- MODULE Spec2Model ----
(***************************************************************************)
(* messaging-api: the HTTP handlers of internal/handlers over the          *)
(* repository of internal/repository and a queue publisher.                *)
(*                                                                         *)
(* Strings are sequences of one-character strings.  An int64 is kept as    *)
(* sign and decimal magnitude (TLC integers are 32 bits wide), so that     *)
(* strconv.ParseInt's range check is computed on the digits themselves.    *)
(***************************************************************************)
EXTENDS Integers, Sequences, FiniteSets, TLC

VARIABLES
    messages,         \* table contact_messages: id -> row
    recipients,       \* table recipients: id -> row
    nextMessageID,    \* next id the store assigns to a message
    nextRecipientID,  \* next id the store assigns to a recipient
    queue,            \* events the publisher accepted
    req,              \* the request handled last
    resp,             \* the response written for it
    calls,            \* repository and publisher calls made while handling it
    acks,             \* responses a caller of POST /contact has seen, by path
    now,              \* the database clock (db.NowFunc)
    everSent,         \* ids of the messages whose status has ever been sent
    token,            \* what token validation found on the request handled last
    inflight          \* the Update request each admin has under way

vars == <<messages, recipients, nextMessageID, nextRecipientID, queue,
          req, resp, calls, acks, now, everSent, token, inflight>>

-----------------------------------------------------------------------------
(* Bounds of the model *)

MaxMessages == 2
MaxRecipients == 1
MaxStatusCalls == 3
MaxStored == 2

-----------------------------------------------------------------------------
(* Strings *)

Str1(a) == <<a>>
Repeat(ch, n) == [i \in 1..n |-> ch]

Digits == {"0", "1", "2", "3", "4", "5", "6", "7", "8", "9"}

DigitVal(ch) ==
    CASE ch = "0" -> 0 [] ch = "1" -> 1 [] ch = "2" -> 2 [] ch = "3" -> 3
      [] ch = "4" -> 4 [] ch = "5" -> 5 [] ch = "6" -> 6 [] ch = "7" -> 7
      [] ch = "8" -> 8 [] ch = "9" -> 9

DigitChar(d) ==
    CASE d = 0 -> "0" [] d = 1 -> "1" [] d = 2 -> "2" [] d = 3 -> "3"
      [] d = 4 -> "4" [] d = 5 -> "5" [] d = 6 -> "6" [] d = 7 -> "7"
      [] d = 8 -> "8" [] d = 9 -> "9"

(* A nil pointer and a pointer to a value (optional JSON fields). *)
Nil == [present |-> FALSE]
Ptr(v) == [present |-> TRUE, val |-> v]

-----------------------------------------------------------------------------
(* int64 and strconv.ParseInt(s, 10, 64) *)

RECURSIVE StripZeros(_)
StripZeros(d) ==
    IF d # <<>> /\ Head(d) = "0" THEN StripZeros(Tail(d)) ELSE d

RECURSIVE DigitsLess(_, _)
(* d1 < d2 for two digit strings of the same length *)
DigitsLess(d1, d2) ==
    IF d1 = <<>> THEN FALSE
    ELSE IF DigitVal(Head(d1)) # DigitVal(Head(d2))
         THEN DigitVal(Head(d1)) < DigitVal(Head(d2))
         ELSE DigitsLess(Tail(d1), Tail(d2))

(* m1 <= m2 for two magnitudes written without leading zeros *)
MagLeq(m1, m2) ==
    \/ Len(m1) < Len(m2)
    \/ Len(m1) = Len(m2) /\ ~DigitsLess(m2, m1)

(* 1<<63 - 1 and 1<<63 *)
MaxInt64Mag ==
    <<"9","2","2","3","3","7","2","0","3","6","8","5","4","7","7","5","8","0","7">>
MinInt64Mag ==
    <<"9","2","2","3","3","7","2","0","3","6","8","5","4","7","7","5","8","0","8">>

RECURSIVE NatDigits(_)
NatDigits(k) ==
    IF k = 0 THEN <<>> ELSE Append(NatDigits(k \div 10), DigitChar(k % 10))

(* the int64 with the value of the small integer k *)
I64(k) == [neg |-> k < 0, mag |-> NatDigits(IF k < 0 THEN 0 - k ELSE k)]

I64Positive(v) == ~v.neg /\ v.mag # <<>>

ParseIntNoRange(s) ==
    LET neg  == s # <<>> /\ Head(s) = "-"
        body == IF s # <<>> /\ Head(s) \in {"+", "-"} THEN Tail(s) ELSE s
        mag  == StripZeros(body)
    IN  IF body = <<>> \/ \E i \in 1..Len(body) : body[i] \notin Digits
        THEN [err |-> "syntax", n |-> I64(0)]
        ELSE [err |-> "nil", n |-> [neg |-> neg /\ mag # <<>>, mag |-> mag]]

ParseInt(s) ==
    LET neg  == s # <<>> /\ Head(s) = "-"
        body == IF s # <<>> /\ Head(s) \in {"+", "-"} THEN Tail(s) ELSE s
        mag  == StripZeros(body)
    IN  IF body = <<>> \/ \E i \in 1..Len(body) : body[i] \notin Digits
        THEN [err |-> "syntax", n |-> I64(0)]
        ELSE IF ~MagLeq(mag, IF neg THEN MinInt64Mag ELSE MaxInt64Mag)
        THEN [err |-> "range", n |-> I64(0)]
        ELSE [err |-> "nil", n |-> [neg |-> neg /\ mag # <<>>, mag |-> mag]]

-----------------------------------------------------------------------------
(* Errors: a cause and the message of the outermost fmt.Errorf("...: %w") *)

NoErr == [cause |-> "nil", msg |-> ""]
ErrRecordNotFound == [cause |-> "record not found", msg |-> "record not found"]
ErrDatabase == [cause |-> "database error", msg |-> "database error"]
ErrQueue == [cause |-> "mq down", msg |-> "mq down"]

ErrorfOpaque(msg, err) == [cause |-> msg, msg |-> msg]

(* fmt.Errorf("...: %w", err): errors.Is still sees the wrapped error *)
Errorf(msg, err) == [cause |-> err.cause, msg |-> msg]
ErrorsIs(err, target) == err.cause = target.cause

-----------------------------------------------------------------------------
(* Request binding (c.ShouldBindJSON) and the field rules it enforces *)

NameMaxLen == 255
SubjectMaxLen == 500
MessageMaxLen == 10000

(* the Go value a JSON field decodes to: the zero value when it is absent *)
StringField(f) == IF f.present THEN f.val ELSE <<>>

AtomsOK(t) ==
    /\ t # <<>>
    /\ t[1] # "." /\ t[Len(t)] # "."
    /\ \A i \in 1..Len(t) : t[i] \notin {"@", " "}
    /\ \A i \in 1..(Len(t) - 1) : ~(t[i] = "." /\ t[i + 1] = ".")

DomainOK(d) ==
    LET dd == IF d # <<>> /\ d[Len(d)] = "." THEN SubSeq(d, 1, Len(d) - 1) ELSE d
    IN  AtomsOK(dd) /\ \E i \in 1..Len(dd) : dd[i] = "."

IsEmail(s) ==
    \E i \in 1..Len(s) :
        /\ s[i] = "@"
        /\ AtomsOK(SubSeq(s, 1, i - 1))
        /\ DomainOK(SubSeq(s, i + 1, Len(s)))

LenWithinOffByOne(s, max) == Len(s) >= 1 /\ Len(s) < max

(* binding:"required,min=1,max=N" *)
LenWithin(s, max) == Len(s) >= 1 /\ Len(s) <= max

(* the struct as decoded: zero when the JSON does not parse *)
Decoded(body, field) ==
    IF body.malformed THEN <<>> ELSE StringField(field)

BindContactMessageCreate(body) ==
    LET r == [Name     |-> Decoded(body, body.name),
              Email    |-> Decoded(body, body.email),
              Subject  |-> Decoded(body, body.subject),
              Message  |-> Decoded(body, body.message),
              Honeypot |-> Decoded(body, body.website)]
    IN  [req |-> r,
         err |-> \/ body.malformed
                 \/ ~LenWithin(r.Name, NameMaxLen)
                 \/ ~IsEmail(r.Email)
                 \/ ~LenWithin(r.Subject, SubjectMaxLen)
                 \/ ~LenWithin(r.Message, MessageMaxLen)]

BindRecipientCreate(body) ==
    LET r == [Email    |-> Decoded(body, body.email),
              Name     |-> Decoded(body, body.name),
              IsActive |-> IF body.malformed THEN Nil ELSE body.isActive]
    IN  [req |-> r,
         err |-> \/ body.malformed
                 \/ ~IsEmail(r.Email)
                 \/ ~LenWithin(r.Name, NameMaxLen)]

ValidatedNonEmpty(f) == f.present /\ f.val # <<>>

(* an optional field of the update payload is validated whenever it is
   present, an empty value included; only an absent field is skipped *)
Validated(f) == f.present

BindRecipientUpdateUnchecked(body) ==
    [req |-> [Email    |-> IF body.malformed THEN Nil ELSE body.email,
              Name     |-> IF body.malformed THEN Nil ELSE body.name,
              IsActive |-> IF body.malformed THEN Nil ELSE body.isActive],
     err |-> body.malformed]

BindRecipientUpdate(body) ==
    LET r == [Email    |-> IF body.malformed THEN Nil ELSE body.email,
              Name     |-> IF body.malformed THEN Nil ELSE body.name,
              IsActive |-> IF body.malformed THEN Nil ELSE body.isActive]
    IN  [req |-> r,
         err |-> \/ body.malformed
                 \/ Validated(r.Email) /\ ~IsEmail(r.Email.val)
                 \/ Validated(r.Name) /\ ~LenWithin(r.Name.val, NameMaxLen)]

BindFailedNever(bind) == FALSE

(* if err := c.ShouldBindJSON(&req); err != nil *)
BindFailed(bind) == bind.err

IsSpamNever(r) == FALSE

(* models.ContactMessageCreate.IsSpam: the honeypot field is filled *)
IsSpam(r) == r.Honeypot # <<>>

-----------------------------------------------------------------------------
(* Responses *)

StatusOK == 200
StatusCreated == 201
StatusNoContent == 204
StatusBadRequest == 400
StatusNotFound == 404
StatusInternalServerError == 500
StatusUnauthorized == 401

NoLocation == [set |-> FALSE]

Response(status, body) == [status |-> status, body |-> body, location |-> NoLocation]
RespondError(status, msg) == Response(status, [error |-> msg])
ThankYou == [message |-> "Thank you for your message"]

HandleRepositoryErrorInternal(err, notFoundMsg, internalMsg) ==
    RespondError(StatusInternalServerError, internalMsg)

(* commonhandlers.HandleRepositoryError *)
HandleRepositoryError(err, notFoundMsg, internalMsg) ==
    IF ErrorsIs(err, ErrRecordNotFound)
    THEN RespondError(StatusNotFound, notFoundMsg)
    ELSE RespondError(StatusInternalServerError, internalMsg)

-----------------------------------------------------------------------------
(* Repository (gorm over PostgreSQL).  fault = TRUE: the database fails.   *)

MessageStatusPending == "pending"
MessageStatusSent == "sent"
MessageStatusFailed == "failed"

Db == [messages |-> messages, nextMessageID |-> nextMessageID,
       recipients |-> recipients, nextRecipientID |-> nextRecipientID,
       queue |-> queue]

(* the primary key whose int64 value is id, as a set of at most one key *)
KeysOf(table, id) == {k \in DOMAIN table : I64(k) = id}

Repo_CreateContactMessage(message, fault) ==
    IF fault
    THEN [err |-> Errorf("failed to create contact message", ErrDatabase),
          message |-> message, db |-> Db]
    ELSE LET m == [message EXCEPT !.ID = nextMessageID]
         IN  [err |-> NoErr, message |-> m,
              db |-> [Db EXCEPT !.messages = messages @@ (nextMessageID :> m),
                                !.nextMessageID = nextMessageID + 1]]

(* Order("created_at DESC"): ids are assigned in creation order *)
Repo_GetContactMessages(fault) ==
    IF fault
    THEN [err |-> Errorf("failed to get contact messages", ErrDatabase), list |-> <<>>]
    ELSE LET n == Cardinality(DOMAIN messages)
         IN  [err |-> NoErr, list |-> [i \in 1..n |-> messages[n + 1 - i]]]

Repo_GetContactMessageByIDPending(id, fault) ==
    LET keys == {k \in KeysOf(messages, id) : messages[k].Status = MessageStatusPending}
    IN  IF fault
        THEN [err |-> Errorf("failed to get contact message by id", ErrDatabase)]
        ELSE IF keys = {}
        THEN [err |-> Errorf("failed to get contact message by id", ErrRecordNotFound)]
        ELSE [err |-> NoErr, message |-> messages[CHOOSE k \in keys : TRUE]]

Repo_GetContactMessageByID(id, fault) ==
    IF fault
    THEN [err |-> Errorf("failed to get contact message by id", ErrDatabase)]
    ELSE IF KeysOf(messages, id) = {}
    THEN [err |-> Errorf("failed to get contact message by id", ErrRecordNotFound)]
    ELSE [err |-> NoErr, message |-> messages[CHOOSE k \in KeysOf(messages, id) : TRUE]]

NextSentAtAlways(status, sentAt) == Ptr(now)

(* if status == models.MessageStatusSent { updates["sent_at"] = r.db.NowFunc() } *)
NextSentAt(status, sentAt) ==
    IF status = MessageStatusSent THEN Ptr(now) ELSE sentAt

NextAttemptsAlways(status, attempts) == attempts + 1

(* if status == models.MessageStatusFailed { updates["attempts"] = attempts + 1 } *)
NextAttempts(status, attempts) ==
    IF status = MessageStatusFailed THEN attempts + 1 ELSE attempts

(* Updates(updates) on the row with this id; no row affected is an error *)
Repo_UpdateContactMessageStatus(id, status, lastError, fault) ==
    IF fault
    THEN [err |-> Errorf("failed to update contact message status", ErrDatabase), db |-> Db]
    ELSE IF KeysOf(messages, id) = {}
    THEN [err |-> Errorf("failed to update contact message status", ErrRecordNotFound),
          db |-> Db]
    ELSE LET k == CHOOSE k \in KeysOf(messages, id) : TRUE
             m == [messages[k] EXCEPT
                      !.Status    = status,
                      !.LastError = IF lastError.present THEN lastError ELSE @,
                      !.SentAt    = NextSentAt(status, @),
                      !.Attempts  = NextAttempts(status, @)]
         IN  [err |-> NoErr, db |-> [Db EXCEPT !.messages = [messages EXCEPT ![k] = m]]]

(* byte order of the characters the model uses *)
CharOrder == <<" ", "!", "#", "+", "-", ".", "0", "1", "2", "3", "4", "5", "6",
               "7", "8", "9", "@", "A", "B", "J", "a", "b", "c", "l", "n", "o", "x">>
CharCode(ch) == CHOOSE i \in 1..Len(CharOrder) : CharOrder[i] = ch

RECURSIVE StrLeq(_, _)
StrLeq(a, b) ==
    IF a = <<>> THEN TRUE
    ELSE IF b = <<>> THEN FALSE
    ELSE IF Head(a) # Head(b) THEN CharCode(Head(a)) < CharCode(Head(b))
    ELSE StrLeq(Tail(a), Tail(b))

(* the orders Order("name ASC") may return the rows of ids in *)
NameOrders(ids) ==
    {o \in [1..Cardinality(ids) -> ids] :
        /\ \A i, j \in DOMAIN o : i # j => o[i] # o[j]
        /\ \A i, j \in DOMAIN o :
              i < j => StrLeq(recipients[o[i]].Name, recipients[o[j]].Name)}

Repo_GetAllRecipients(order, fault) ==
    IF fault
    THEN [err |-> Errorf("failed to get all recipients", ErrDatabase), list |-> <<>>]
    ELSE [err |-> NoErr, list |-> [i \in DOMAIN order |-> recipients[order[i]]]]

(* no WHERE clause: every row is returned *)
Repo_GetActiveRecipientsAll(order, fault) ==
    IF fault
    THEN [err |-> Errorf("failed to get active recipients", ErrDatabase), list |-> <<>>]
    ELSE [err |-> NoErr, list |-> [i \in DOMAIN order |-> recipients[order[i]]]]

IsActiveRow(r) == r.IsActive = TRUE

(* order is the ORDER BY name ASC of the table; the WHERE keeps the rows
   whose is_active is true *)
Repo_GetActiveRecipients(order, fault) ==
    IF fault
    THEN [err |-> Errorf("failed to get active recipients", ErrDatabase), list |-> <<>>]
    ELSE [err |-> NoErr,
          list |-> SelectSeq([i \in DOMAIN order |-> recipients[order[i]]], IsActiveRow)]

(* every row goes when the id is stored *)
Repo_DeleteRecipientAll(id, fault) ==
    IF fault
    THEN [err |-> Errorf("failed to delete recipient", ErrDatabase), db |-> Db]
    ELSE IF KeysOf(recipients, id) = {}
    THEN [err |-> Errorf("failed to delete recipient", ErrRecordNotFound), db |-> Db]
    ELSE [err |-> NoErr, db |-> [Db EXCEPT !.recipients = <<>>]]

Repo_GetRecipientByID(id, fault) ==
    IF fault
    THEN [err |-> Errorf("failed to get recipient by id", ErrDatabase)]
    ELSE IF KeysOf(recipients, id) = {}
    THEN [err |-> Errorf("failed to get recipient by id", ErrRecordNotFound)]
    ELSE [err |-> NoErr,
          recipient |-> recipients[CHOOSE k \in KeysOf(recipients, id) : TRUE]]

Repo_CreateRecipient(recipient, fault) ==
    IF fault
    THEN [err |-> Errorf("failed to create recipient", ErrDatabase),
          recipient |-> recipient, db |-> Db]
    ELSE LET r == [recipient EXCEPT !.ID = nextRecipientID]
         IN  [err |-> NoErr, recipient |-> r,
              db |-> [Db EXCEPT !.recipients = recipients @@ (nextRecipientID :> r),
                                !.nextRecipientID = nextRecipientID + 1]]

Repo_UpdateRecipient(recipient, fault) ==
    IF fault
    THEN [err |-> Errorf("failed to update recipient", ErrDatabase), db |-> Db]
    ELSE IF recipient.ID \notin DOMAIN recipients
    THEN [err |-> Errorf("failed to update recipient", ErrRecordNotFound), db |-> Db]
    ELSE [err |-> NoErr,
          db |-> [Db EXCEPT !.recipients = [recipients EXCEPT ![recipient.ID] = recipient]]]

Repo_DeleteRecipientUnchecked(id, fault) ==
    IF fault
    THEN [err |-> Errorf("failed to delete recipient", ErrDatabase), db |-> Db]
    ELSE LET keep == DOMAIN recipients \ KeysOf(recipients, id)
         IN  [err |-> NoErr,
              db |-> [Db EXCEPT !.recipients = [k \in keep |-> recipients[k]]]]

Repo_DeleteRecipient(id, fault) ==
    IF fault
    THEN [err |-> Errorf("failed to delete recipient", ErrDatabase), db |-> Db]
    ELSE IF KeysOf(recipients, id) = {}
    THEN [err |-> Errorf("failed to delete recipient", ErrRecordNotFound), db |-> Db]
    ELSE LET keep == DOMAIN recipients \ KeysOf(recipients, id)
         IN  [err |-> NoErr,
              db |-> [Db EXCEPT !.recipients = [k \in keep |-> recipients[k]]]]

(* queue.Publisher.Publish *)
Publish(event, fault) ==
    IF fault THEN [err |-> ErrQueue, queue |-> queue]
    ELSE [err |-> NoErr, queue |-> Append(queue, event)]

-----------------------------------------------------------------------------
(* Handlers.  Each yields the response, the calls it made and the store.   *)

Call(fn, arg, err) == [fn |-> fn, arg |-> arg, err |-> err]
Outcome(path, r, cs, db) == [path |-> path, resp |-> r, calls |-> cs, db |-> db]

(* the character U+0000, written "\x00" in the Go tests *)
NUL == "NUL"

ControlChars == {NUL, "\n", "\t"}

RECURSIVE TrimLeft(_)
TrimLeft(s) == IF s # <<>> /\ Head(s) = " " THEN TrimLeft(Tail(s)) ELSE s

RECURSIVE TrimRight(_)
TrimRight(s) ==
    IF s # <<>> /\ s[Len(s)] = " " THEN TrimRight(SubSeq(s, 1, Len(s) - 1)) ELSE s

TrimSpace(s) == TrimRight(TrimLeft(s))

RECURSIVE EscapeString(_)
EscapeString(s) ==
    IF s = <<>> THEN <<>>
    ELSE LET c == Head(s)
         IN  (CASE c = "<"  -> <<"&", "l", "t", ";">>
                [] c = ">"  -> <<"&", "g", "t", ";">>
                [] c = "'"  -> <<"&", "#", "3", "9", ";">>
                [] c \in ControlChars -> <<>>
                [] OTHER    -> <<c>>) \o EscapeString(Tail(s))

Sanitized(s) == EscapeString(TrimSpace(s))

(* the fields are cleaned before they are stored *)
NewContactMessageSanitized(r) ==
    [ID |-> 0, Name |-> Sanitized(r.Name), Email |-> Sanitized(r.Email),
     Subject |-> Sanitized(r.Subject), Message |-> Sanitized(r.Message),
     Status |-> "pending", LastError |-> Nil, Attempts |-> 0, SentAt |-> Nil]

NewContactMessageSent(r) ==
    [ID |-> 0, Name |-> r.Name, Email |-> r.Email, Subject |-> r.Subject,
     Message |-> r.Message, Status |-> MessageStatusSent,
     LastError |-> Nil, Attempts |-> 0, SentAt |-> Nil]

NewContactMessage(r) ==
    [ID |-> 0, Name |-> r.Name, Email |-> r.Email, Subject |-> r.Subject,
     Message |-> r.Message, Status |-> MessageStatusPending,
     LastError |-> Nil, Attempts |-> 0, SentAt |-> Nil]

ContactMessageEventUnassigned(message) == [MessageID |-> 0]

(* built after the create, which fills message.ID *)
ContactMessageEvent(message) == [MessageID |-> message.ID]

SpamResponseOK == Response(StatusOK, ThankYou)

SpamResponse == Response(StatusCreated, ThankYou)

SubmittedResponseStrict(publishErr) ==
    IF publishErr # NoErr
    THEN RespondError(StatusInternalServerError, "Failed to submit message")
    ELSE Response(StatusCreated, ThankYou)

(* the publish error is logged, not returned *)
SubmittedResponse(publishErr) == Response(StatusCreated, ThankYou)

CreateFailedIgnored(err) == FALSE

CreateFailed(err) == err # NoErr

CreateContactMessage(body, createFault, publishFault) ==
    LET bind == BindContactMessageCreate(body)
    IN  IF BindFailed(bind)
        THEN Outcome("invalid", RespondError(StatusBadRequest, "binding"), <<>>, Db)
        ELSE IF IsSpam(bind.req)
        THEN Outcome("spam", SpamResponse, <<>>, Db)
        ELSE
        LET message == NewContactMessage(bind.req)
            c       == Repo_CreateContactMessage(message, createFault)
            create  == Call("CreateContactMessage", message, c.err)
            event   == ContactMessageEvent(c.message)
            p       == Publish(event, publishFault)
            publish == Call("Publish", event, p.err)
        IN  IF CreateFailed(c.err)
            THEN Outcome("failed",
                         RespondError(StatusInternalServerError, "Failed to submit message"),
                         <<create>>, Db)
            ELSE Outcome("stored", SubmittedResponse(p.err), <<create, publish>>,
                         [c.db EXCEPT !.queue = p.queue])

GetContactMessages(fault) ==
    LET g == Repo_GetContactMessages(fault)
        get == Call("GetContactMessages", [none |-> TRUE], g.err)
    IN  IF g.err # NoErr
        THEN Outcome("failed",
                     RespondError(StatusInternalServerError, "Failed to retrieve messages"),
                     <<get>>, Db)
        ELSE Outcome("ok", Response(StatusOK, [list |-> g.list]), <<get>>, Db)

GetContactMessage(idParam, fault) ==
    LET p == ParseInt(idParam)
        g == Repo_GetContactMessageByID(p.n, fault)
        get == Call("GetContactMessageByID", [id |-> p.n], g.err)
    IN  IF p.err # "nil"
        THEN Outcome("badid", RespondError(StatusBadRequest, "Invalid ID format"), <<>>, Db)
        ELSE IF g.err # NoErr
        THEN Outcome("failed",
                     HandleRepositoryError(g.err, "Message not found", "Failed to retrieve message"),
                     <<get>>, Db)
        ELSE Outcome("ok", Response(StatusOK, [contactMessage |-> g.message]), <<get>>, Db)

GetRecipients(order, fault) ==
    LET g == Repo_GetAllRecipients(order, fault)
        get == Call("GetAllRecipients", [none |-> TRUE], g.err)
    IN  IF g.err # NoErr
        THEN Outcome("failed",
                     RespondError(StatusInternalServerError, "Failed to retrieve recipients"),
                     <<get>>, Db)
        ELSE Outcome("ok", Response(StatusOK, [list |-> g.list]), <<get>>, Db)

GetRecipient(idParam, fault) ==
    LET p == ParseInt(idParam)
        g == Repo_GetRecipientByID(p.n, fault)
        get == Call("GetRecipientByID", [id |-> p.n], g.err)
    IN  IF p.err # "nil"
        THEN Outcome("badid", RespondError(StatusBadRequest, "Invalid ID format"), <<>>, Db)
        ELSE IF g.err # NoErr
        THEN Outcome("failed",
                     HandleRepositoryError(g.err, "Recipient not found", "Failed to retrieve recipient"),
                     <<get>>, Db)
        ELSE Outcome("ok", Response(StatusOK, [recipient |-> g.recipient]), <<get>>, Db)

NewRecipientAlwaysActive(r) ==
    [ID |-> 0, Email |-> r.Email, Name |-> r.Name, IsActive |-> TRUE]

NewRecipient(r) ==
    [ID |-> 0, Email |-> r.Email, Name |-> r.Name,
     IsActive |-> IF r.IsActive.present THEN r.IsActive.val ELSE TRUE]

LocationHeaderUnassigned(path, id) == [set |-> TRUE, path |-> path, id |-> <<"0">>]

(* commonhandlers.SetLocationHeader: the request path and the new id *)
LocationHeader(path, id) == [set |-> TRUE, path |-> path, id |-> NatDigits(id)]

CreateRecipient(body, fault) ==
    LET bind == BindRecipientCreate(body)
    IN  IF BindFailed(bind)
        THEN Outcome("invalid", RespondError(StatusBadRequest, "binding"), <<>>, Db)
        ELSE
        LET recipient == NewRecipient(bind.req)
            c         == Repo_CreateRecipient(recipient, fault)
            create    == Call("CreateRecipient", recipient, c.err)
        IN  IF c.err # NoErr
            THEN Outcome("failed",
                         RespondError(StatusInternalServerError, "Failed to create recipient"),
                         <<create>>, Db)
            ELSE Outcome("stored",
                         [Response(StatusCreated, [recipient |-> c.recipient])
                            EXCEPT !.location = LocationHeader("/api/v1/recipients", c.recipient.ID)],
                         <<create>>, c.db)

ApplyUpdatesToggle(existing, r) ==
    [existing EXCEPT
        !.Email    = IF r.Email.present THEN r.Email.val ELSE @,
        !.Name     = IF r.Name.present THEN r.Name.val ELSE @,
        !.IsActive = IF r.IsActive.present THEN ~@ ELSE @]

ApplyUpdatesOverwrite(existing, r) ==
    [existing EXCEPT
        !.Email    = IF r.Email.present THEN r.Email.val ELSE <<>>,
        !.Name     = IF r.Name.present THEN r.Name.val ELSE <<>>,
        !.IsActive = IF r.IsActive.present THEN r.IsActive.val ELSE FALSE]

(* recipient.go: apply updates, field by field when the pointer is not nil *)
ApplyUpdates(existing, r) ==
    [existing EXCEPT
        !.Email    = IF r.Email.present THEN r.Email.val ELSE @,
        !.Name     = IF r.Name.present THEN r.Name.val ELSE @,
        !.IsActive = IF r.IsActive.present THEN r.IsActive.val ELSE @]

UpdateRecipient(idParam, body, getFault, updateFault) ==
    LET p    == ParseInt(idParam)
        g    == Repo_GetRecipientByID(p.n, getFault)
        get  == Call("GetRecipientByID", [id |-> p.n], g.err)
        bind == BindRecipientUpdate(body)
    IN  IF p.err # "nil"
        THEN Outcome("badid", RespondError(StatusBadRequest, "Invalid ID format"), <<>>, Db)
        ELSE IF g.err # NoErr
        THEN Outcome("failed",
                     HandleRepositoryError(g.err, "Recipient not found", "Failed to retrieve recipient"),
                     <<get>>, Db)
        ELSE IF BindFailed(bind)
        THEN Outcome("invalid", RespondError(StatusBadRequest, "binding"), <<get>>, Db)
        ELSE
        LET merged == ApplyUpdates(g.recipient, bind.req)
            u      == Repo_UpdateRecipient(merged, updateFault)
            update == Call("UpdateRecipient", merged, u.err)
        IN  IF u.err # NoErr
            THEN Outcome("failed",
                         RespondError(StatusInternalServerError, "Failed to update recipient"),
                         <<get, update>>, Db)
            ELSE Outcome("stored", Response(StatusOK, [recipient |-> merged]),
                         <<get, update>>, u.db)

DeleteRecipient(idParam, fault) ==
    LET p   == ParseInt(idParam)
        d   == Repo_DeleteRecipient(p.n, fault)
        del == Call("DeleteRecipient", [id |-> p.n], d.err)
    IN  IF p.err # "nil"
        THEN Outcome("badid", RespondError(StatusBadRequest, "Invalid ID format"), <<>>, Db)
        ELSE IF d.err # NoErr
        THEN Outcome("failed",
                     HandleRepositoryError(d.err, "Recipient not found", "Failed to delete recipient"),
                     <<del>>, Db)
        ELSE Outcome("deleted", Response(StatusNoContent, [empty |-> TRUE]), <<del>>, d.db)

-----------------------------------------------------------------------------
(* Requests the model sends *)

Jo == <<"J", "o">>
Al == <<"A", "l">>
EmailA == <<"a", "@", "b", ".", "c">>
EmailB == <<"b", "@", "b", ".", "c">>
NotAnEmail == <<"n", "o">>
NoTLD == <<"a", "@", "b">>

MalformedJSON ==
    [malformed |-> TRUE, name |-> Nil, email |-> Nil, subject |-> Nil,
     message |-> Nil, website |-> Nil, isActive |-> Nil]

NoBody ==
    [malformed |-> FALSE, name |-> Nil, email |-> Nil, subject |-> Nil,
     message |-> Nil, website |-> Nil, isActive |-> Nil]

ContactBodies ==
    {MalformedJSON} \cup
    [malformed : {FALSE},
     name      : {Nil, Ptr(Jo)},
     email     : {Ptr(EmailA), Ptr(NotAnEmail), Ptr(NoTLD)},
     subject   : {Ptr(<<>>), Ptr(<<"A">>)},
     message   : {Nil, Ptr(<<"o">>)},
     website   : {Nil, Ptr(<<>>), Ptr(<<"x">>)},
     isActive  : {Nil}]

(* strings.Repeat("a", n) at and just over each limit, one field at a time *)
BoundaryBodies ==
    LET base == [malformed |-> FALSE, name |-> Ptr(Jo), email |-> Ptr(EmailA),
                 subject |-> Ptr(<<"A">>), message |-> Ptr(<<"o">>),
                 website |-> Nil, isActive |-> Nil]
    IN  {[base EXCEPT !.name = Ptr(Repeat("a", n))] :
            n \in {0, NameMaxLen, NameMaxLen + 1}}
        \cup
        {[base EXCEPT !.subject = Ptr(Repeat("a", n))] :
            n \in {0, SubjectMaxLen, SubjectMaxLen + 1}}
        \cup
        {[base EXCEPT !.message = Ptr(Repeat("a", n))] :
            n \in {0, MessageMaxLen, MessageMaxLen + 1}}
        \cup
        {[base EXCEPT !.website = w] : w \in {Nil, Ptr(<<"x">>)}}

RecipientCreateBodies ==
    {MalformedJSON} \cup
    [malformed : {FALSE},
     name      : {Nil, Ptr(Jo)},
     email     : {Nil, Ptr(EmailA), Ptr(NotAnEmail)},
     subject   : {Nil}, message : {Nil}, website : {Nil},
     isActive  : {Nil, Ptr(TRUE), Ptr(FALSE)}]

RecipientUpdateBodies ==
    {MalformedJSON} \cup
    [malformed : {FALSE},
     name      : {Nil, Ptr(Al), Ptr(<<>>)},
     email     : {Nil, Ptr(EmailB), Ptr(NotAnEmail), Ptr(<<>>)},
     subject   : {Nil}, message : {Nil}, website : {Nil},
     isActive  : {Nil, Ptr(TRUE), Ptr(FALSE)}]

(* path parameters: the ids in use, and the forms the tests and ParseInt tell apart *)
StoredIdParams == {NatDigits(k) : k \in 1..(MaxRecipients + 1)}

IdParams ==
    StoredIdParams \cup
    {<<"0">>, <<"-", "1">>, <<"+", "1">>, <<"0", "1">>,
     <<"a", "b", "c">>, <<"!", "@", "#">>, <<"1", ".", "5">>, <<"1", "a">>,
     Repeat("9", 20),
     MaxInt64Mag, MinInt64Mag, <<"-">> \o MinInt64Mag,
     <<"-">> \o SubSeq(MinInt64Mag, 1, 18) \o <<"9">>}

(* every id form with two bodies, every body with the ids in use *)
UpdateInputs ==
    (IdParams \X {MalformedJSON, [NoBody EXCEPT !.name = Ptr(Al)]})
    \cup (StoredIdParams \X RecipientUpdateBodies)

NoID == <<>>

-----------------------------------------------------------------------------
(* The service *)

NoResponse == Response(0, [empty |-> TRUE])

Request(op, id, body) == [op |-> op, id |-> id, body |-> body]

Idle == Request("none", NoID, NoBody)

ProtectedNone(op) == FALSE

(* routes.Setup: the handlers of the group that uses
   authMiddleware.ValidateToken(); POST /contact is registered outside it *)
ProtectedRoutes ==
    {"GetContactMessages", "GetContactMessage",
     "GetRecipients", "GetRecipient", "CreateRecipient", "UpdateRecipient",
     "DeleteRecipient"}

Protected(op) == op \in ProtectedRoutes

(* the middleware lets the request through when the bearer token is there,
   signed and not expired *)
ValidateToken(t) == t = "valid"

Unauthorized == RespondError(StatusUnauthorized, "unauthorized")

(* the two admins of the concurrent updates, and an Update not begun *)
Admins == {"admin1", "admin2"}

NoRecipient == [ID |-> 0, Email |-> <<>>, Name |-> <<>>, IsActive |-> FALSE]

IdleSlot ==
    [pc |-> "idle", id |-> NoID, body |-> NoBody, existing |-> NoRecipient,
     resp |-> NoResponse, calls |-> <<>>, at |-> 0]

Init ==
    /\ messages = <<>>
    /\ recipients = <<>>
    /\ nextMessageID = 1
    /\ nextRecipientID = 1
    /\ queue = <<>>
    /\ req = Idle
    /\ resp = NoResponse
    /\ calls = <<>>
    /\ acks = {}
    /\ now = 0
    /\ everSent = {}
    /\ token = "none"
    /\ inflight = [a \in Admins |-> IdleSlot]

Served(r, o) ==
    /\ req' = r
    /\ resp' = o.resp
    /\ calls' = o.calls
    /\ messages' = o.db.messages
    /\ nextMessageID' = o.db.nextMessageID
    /\ recipients' = o.db.recipients
    /\ nextRecipientID' = o.db.nextRecipientID
    /\ queue' = o.db.queue
    /\ token' = IF Protected(r.op) THEN "valid" ELSE "none"
    /\ UNCHANGED <<now, everSent, inflight>>

(* POST /api/v1/contact *)
PostContactOf(bodies, faults) ==
    /\ req = Idle
    /\ nextMessageID <= MaxMessages
    /\ \E body \in bodies, createFault \in faults, publishFault \in faults :
        \E o \in {CreateContactMessage(body, createFault, publishFault)} :
            /\ Served(Request("CreateContactMessage", NoID, body), o)
            /\ acks' = IF o.path \in {"spam", "stored"}
                       THEN acks \cup {[path |-> o.path, resp |-> o.resp]}
                       ELSE acks

PostContact(bodies) == PostContactOf(bodies, BOOLEAN)

(* GET /api/v1/messages *)
ListMessages ==
    /\ req = Idle
    /\ \E fault \in BOOLEAN :
        /\ \E o \in {GetContactMessages(fault)} : Served(Request("GetContactMessages", NoID, NoBody), o)
        /\ UNCHANGED acks

(* GET /api/v1/messages/:id *)
GetMessage ==
    /\ req = Idle
    /\ \E id \in IdParams, fault \in BOOLEAN :
        /\ \E o \in {GetContactMessage(id, fault)} : Served(Request("GetContactMessage", id, NoBody), o)
        /\ UNCHANGED acks

(* GET /api/v1/recipients *)
ListRecipients ==
    /\ req = Idle
    /\ \E order \in NameOrders(DOMAIN recipients), fault \in BOOLEAN :
        /\ \E o \in {GetRecipients(order, fault)} : Served(Request("GetRecipients", NoID, NoBody), o)
        /\ UNCHANGED acks

(* GET /api/v1/recipients/:id *)
GetOneRecipient ==
    /\ req = Idle
    /\ \E id \in IdParams, fault \in BOOLEAN :
        /\ \E o \in {GetRecipient(id, fault)} : Served(Request("GetRecipient", id, NoBody), o)
        /\ UNCHANGED acks

(* POST /api/v1/recipients *)
PostRecipientUpTo(bodies, faults, max) ==
    /\ req = Idle
    /\ nextRecipientID <= max
    /\ \E body \in bodies, fault \in faults :
        /\ \E o \in {CreateRecipient(body, fault)} : Served(Request("CreateRecipient", NoID, body), o)
        /\ UNCHANGED acks

PostRecipientOf(bodies, faults) == PostRecipientUpTo(bodies, faults, MaxRecipients)

PostRecipient == PostRecipientOf(RecipientCreateBodies, BOOLEAN)

(* PUT /api/v1/recipients/:id *)
PutRecipientOf(inputs, faults) ==
    /\ req = Idle
    /\ \E in \in inputs, getFault \in faults, updateFault \in faults :
        /\ \E o \in {UpdateRecipient(in[1], in[2], getFault, updateFault)} :
              Served(Request("UpdateRecipient", in[1], in[2]), o)
        /\ UNCHANGED acks

PutRecipient == PutRecipientOf(UpdateInputs, BOOLEAN)

(* DELETE /api/v1/recipients/:id *)
DeleteRecipientOf(ids, faults) ==
    /\ req = Idle
    /\ \E id \in ids, fault \in faults :
        /\ \E o \in {DeleteRecipient(id, fault)} : Served(Request("DeleteRecipient", id, NoBody), o)
        /\ UNCHANGED acks

DeleteOneRecipient == DeleteRecipientOf(IdParams, BOOLEAN)

(* the handler has returned: nothing of the request outlives it *)
Done ==
    /\ req # Idle
    /\ req' = Idle
    /\ resp' = NoResponse
    /\ calls' = <<>>
    /\ UNCHANGED <<messages, recipients, nextMessageID, nextRecipientID, queue, acks,
                   now, everSent, inflight>>
    /\ token' = "none"

Next ==
    \/ PostContact(ContactBodies)
    \/ ListMessages
    \/ GetMessage
    \/ ListRecipients
    \/ GetOneRecipient
    \/ PostRecipient
    \/ PutRecipient
    \/ DeleteOneRecipient
    \/ Done

Spec == Init /\ [][Next]_vars

(* the contact form alone, with fields at their length limits *)
NextBounds ==
    \/ PostContact(BoundaryBodies)
    \/ ListMessages
    \/ GetMessage
    \/ Done

SpecBounds == Init /\ [][NextBounds]_vars

(* the notification worker reports on a message through the repository:
   Repository.UpdateContactMessageStatus.  The clock moves with each call. *)
StatusBodies ==
    {[NoBody EXCEPT !.name = Ptr(Jo), !.email = Ptr(EmailA),
                    !.subject = Ptr(<<"A">>), !.message = Ptr(<<"o">>)]}

(* status is a string parameter: the three statuses and one that is none of them *)
StatusInputs ==
    {MessageStatusPending, MessageStatusSent, MessageStatusFailed, "processing"}

UpdateMessageStatus ==
    /\ req = Idle
    /\ now < MaxStatusCalls
    /\ \E k \in 1..nextMessageID, status \in StatusInputs,
          lastError \in {Nil, Ptr(<<"x">>)}, fault \in BOOLEAN :
        \E u \in {Repo_UpdateContactMessageStatus(I64(k), status, lastError, fault)} :
            /\ req' = Request("UpdateContactMessageStatus", NatDigits(k), NoBody)
            /\ resp' = NoResponse
            /\ calls' = <<Call("UpdateContactMessageStatus",
                               [id |-> I64(k), status |-> status, lastError |-> lastError],
                               u.err)>>
            /\ messages' = u.db.messages
            /\ everSent' = IF u.err = NoErr /\ status = MessageStatusSent
                           THEN everSent \cup {k} ELSE everSent
            /\ now' = now + 1
            /\ UNCHANGED <<recipients, nextMessageID, nextRecipientID, queue, acks,
                           token, inflight>>

NextStatus ==
    \/ PostContactOf(StatusBodies, {FALSE})
    \/ UpdateMessageStatus
    \/ ListMessages
    \/ Done

SpecStatus == Init /\ [][NextStatus]_vars

-----------------------------------------------------------------------------
(* Two Update requests under way at once.  The handler reads the record,
   binds the payload and writes the merged record in separate repository
   calls, so other requests can run between its read and its write. *)

(* UpdateRecipient up to the binding of the payload *)
UpdateRecipientFetch(idParam, body, getFault) ==
    LET p    == ParseInt(idParam)
        g    == Repo_GetRecipientByID(p.n, getFault)
        get  == Call("GetRecipientByID", [id |-> p.n], g.err)
        bind == BindRecipientUpdate(body)
        Stop(path, r, cs) ==
            [path |-> path, resp |-> r, calls |-> cs, existing |-> NoRecipient]
    IN  IF p.err # "nil"
        THEN Stop("badid", RespondError(StatusBadRequest, "Invalid ID format"), <<>>)
        ELSE IF g.err # NoErr
        THEN Stop("failed",
                  HandleRepositoryError(g.err, "Recipient not found", "Failed to retrieve recipient"),
                  <<get>>)
        ELSE IF BindFailed(bind)
        THEN Stop("invalid", RespondError(StatusBadRequest, "binding"), <<get>>)
        ELSE [path |-> "fetched", resp |-> NoResponse, calls |-> <<get>>,
              existing |-> g.recipient]

(* the merge takes the record as it is stored now, not as it was read *)
UpdateRecipientPersistFresh(existing, r, updateFault) ==
    LET fresh  == IF existing.ID \in DOMAIN recipients
                  THEN recipients[existing.ID] ELSE existing
        merged == ApplyUpdates(fresh, r)
        u      == Repo_UpdateRecipient(merged, updateFault)
        update == Call("UpdateRecipient", merged, u.err)
    IN  IF u.err # NoErr
        THEN Outcome("failed",
                     RespondError(StatusInternalServerError, "Failed to update recipient"),
                     <<update>>, Db)
        ELSE Outcome("stored", Response(StatusOK, [recipient |-> merged]),
                     <<update>>, u.db)

(* UpdateRecipient from the merge on: existing is the record read earlier *)
UpdateRecipientPersist(existing, r, updateFault) ==
    LET merged == ApplyUpdates(existing, r)
        u      == Repo_UpdateRecipient(merged, updateFault)
        update == Call("UpdateRecipient", merged, u.err)
    IN  IF u.err # NoErr
        THEN Outcome("failed",
                     RespondError(StatusInternalServerError, "Failed to update recipient"),
                     <<update>>, Db)
        ELSE Outcome("stored", Response(StatusOK, [recipient |-> merged]),
                     <<update>>, u.db)

ConcurrentBodies ==
    {[NoBody EXCEPT !.name = Ptr(Al)],
     [NoBody EXCEPT !.email = Ptr(EmailB)],
     [NoBody EXCEPT !.isActive = Ptr(FALSE)],
     [NoBody EXCEPT !.email = Ptr(NotAnEmail)]}

ConcurrentCreateBodies ==
    {[NoBody EXCEPT !.name = Ptr(Jo), !.email = Ptr(EmailA)]}

(* how many Updates have persisted so far *)
Persisted == Cardinality({a \in Admins : inflight[a].at > 0})

UpdateFetch(a) ==
    /\ req = Idle
    /\ inflight[a].pc = "idle"
    /\ \E id \in StoredIdParams, body \in ConcurrentBodies, getFault \in BOOLEAN :
        \E f \in {UpdateRecipientFetch(id, body, getFault)} :
            inflight' = [inflight EXCEPT ![a] =
                            [pc       |-> IF f.path = "fetched" THEN "fetched" ELSE "done",
                             id       |-> id,
                             body     |-> body,
                             existing |-> f.existing,
                             resp     |-> f.resp,
                             calls    |-> f.calls,
                             at       |-> 0]]
    /\ UNCHANGED <<messages, recipients, nextMessageID, nextRecipientID, queue,
                   req, resp, calls, acks, now, everSent, token>>

UpdatePersist(a) ==
    /\ req = Idle
    /\ inflight[a].pc = "fetched"
    /\ \E updateFault \in BOOLEAN :
        \E o \in {UpdateRecipientPersist(inflight[a].existing,
                                         BindRecipientUpdate(inflight[a].body).req,
                                         updateFault)} :
            /\ recipients' = o.db.recipients
            /\ inflight' = [inflight EXCEPT ![a].pc = "done",
                                            ![a].resp = o.resp,
                                            ![a].calls = @ \o o.calls,
                                            ![a].at = Persisted + 1]
    /\ UNCHANGED <<messages, nextMessageID, nextRecipientID, queue,
                   req, resp, calls, acks, now, everSent, token>>

NextConcurrent ==
    \/ PostRecipientOf(ConcurrentCreateBodies, {FALSE})
    \/ \E a \in Admins : UpdateFetch(a)
    \/ \E a \in Admins : UpdatePersist(a)
    \/ DeleteRecipientOf(StoredIdParams, {FALSE})
    \/ Done

SpecConcurrent == Init /\ [][NextConcurrent]_vars

-----------------------------------------------------------------------------
(* Several recipients, active and inactive, and the notification worker's
   read of the active ones *)

ListedCreateBodies ==
    {[NoBody EXCEPT !.name = Ptr(Jo), !.email = Ptr(EmailA)],
     [NoBody EXCEPT !.name = Ptr(Al), !.email = Ptr(EmailB), !.isActive = Ptr(FALSE)]}

ListedIdParams == {NatDigits(k) : k \in 1..MaxStored}

ListedUpdateInputs ==
    ListedIdParams \X {[NoBody EXCEPT !.isActive = Ptr(TRUE)],
                       [NoBody EXCEPT !.isActive = Ptr(FALSE)]}

(* Repository.GetActiveRecipients, called by the worker that sends the
   notifications; resp holds what the call returned *)
ListActiveRecipients ==
    /\ req = Idle
    /\ \E order \in NameOrders(DOMAIN recipients), fault \in BOOLEAN :
        \E g \in {Repo_GetActiveRecipients(order, fault)} :
            /\ req' = Request("GetActiveRecipients", NoID, NoBody)
            /\ resp' = Response(0, [list |-> g.list])
            /\ calls' = <<Call("GetActiveRecipients", [none |-> TRUE], g.err)>>
    /\ UNCHANGED <<messages, recipients, nextMessageID, nextRecipientID, queue,
                   acks, now, everSent, token, inflight>>

NextRecipients ==
    \/ PostRecipientUpTo(ListedCreateBodies, {FALSE}, MaxStored)
    \/ PutRecipientOf(ListedUpdateInputs, {FALSE})
    \/ DeleteRecipientOf(ListedIdParams, BOOLEAN)
    \/ ListRecipients
    \/ ListActiveRecipients
    \/ Done

SpecRecipients == Init /\ [][NextRecipients]_vars

-----------------------------------------------------------------------------
(* Submissions with the content of TestCreateContactMessage_MaliciousContent:
   SQL and HTML fragments, control characters, a null byte, and spaces at
   the ends of a field *)

SqlName == <<"R", "'", ")", ";", "-", "-">>
HtmlSubject == <<"<", "b", ">">>
ScriptMessage == <<"<", "s", ">", "x", "<", "/", "s", ">">>

ContentBodies ==
    {[NoBody EXCEPT !.name = Ptr(SqlName), !.email = Ptr(EmailA),
                    !.subject = Ptr(HtmlSubject), !.message = Ptr(ScriptMessage)],
     [NoBody EXCEPT !.name = Ptr(<<"U", NUL, "N">>), !.email = Ptr(EmailB),
                    !.subject = Ptr(<<"S", "\n", "w">>),
                    !.message = Ptr(<<"M", "\t", "t">>)],
     [NoBody EXCEPT !.name = Ptr(<<" ", "J", "o", " ">>), !.email = Ptr(EmailA),
                    !.subject = Ptr(<<" ", "A">>), !.message = Ptr(<<"o", " ">>)],
     [NoBody EXCEPT !.name = Ptr(SqlName), !.email = Ptr(NotAnEmail),
                    !.subject = Ptr(HtmlSubject), !.message = Ptr(ScriptMessage)],
     [NoBody EXCEPT !.name = Ptr(SqlName), !.email = Ptr(EmailA),
                    !.subject = Ptr(HtmlSubject), !.message = Ptr(ScriptMessage),
                    !.website = Ptr(<<"x">>)]}

NextContent ==
    \/ PostContact(ContentBodies)
    \/ ListMessages
    \/ Done

SpecContent == Init /\ [][NextContent]_vars

-----------------------------------------------------------------------------
(* Requests that carry no token, or one that fails validation *)

(* the handler the router has registered for the request *)
Dispatch(r) ==
    CASE r.op = "CreateContactMessage" -> CreateContactMessage(r.body, FALSE, FALSE)
      [] r.op = "GetContactMessages"   -> GetContactMessages(FALSE)
      [] r.op = "GetContactMessage"    -> GetContactMessage(r.id, FALSE)
      [] r.op = "GetRecipients"        ->
            GetRecipients(CHOOSE order \in NameOrders(DOMAIN recipients) : TRUE, FALSE)
      [] r.op = "GetRecipient"         -> GetRecipient(r.id, FALSE)
      [] r.op = "CreateRecipient"      -> CreateRecipient(r.body, FALSE)
      [] r.op = "UpdateRecipient"      -> UpdateRecipient(r.id, r.body, FALSE, FALSE)
      [] r.op = "DeleteRecipient"      -> DeleteRecipient(r.id, FALSE)

(* the middleware chain of the route, then its handler *)
Routed(r, t) ==
    IF Protected(r.op) /\ ~ValidateToken(t)
    THEN Outcome("unauthorized", Unauthorized, <<>>, Db)
    ELSE Dispatch(r)

AnonymousRequests ==
    {Request("CreateContactMessage", NoID,
             [NoBody EXCEPT !.name = Ptr(Jo), !.email = Ptr(EmailA),
                            !.subject = Ptr(<<"A">>), !.message = Ptr(<<"o">>)]),
     Request("GetContactMessages", NoID, NoBody),
     Request("GetContactMessage", <<"1">>, NoBody),
     Request("GetRecipients", NoID, NoBody),
     Request("GetRecipient", <<"1">>, NoBody),
     Request("CreateRecipient", NoID,
             [NoBody EXCEPT !.name = Ptr(Jo), !.email = Ptr(EmailA)]),
     Request("UpdateRecipient", <<"1">>, [NoBody EXCEPT !.name = Ptr(Al)]),
     Request("DeleteRecipient", <<"1">>, NoBody)}

BadTokens == {"none", "invalid", "expired"}

WithoutValidToken ==
    /\ req = Idle
    /\ \E r \in AnonymousRequests, t \in BadTokens :
        /\ r.op = "CreateContactMessage" => nextMessageID <= MaxMessages
        /\ r.op = "CreateRecipient" => nextRecipientID <= MaxRecipients
        /\ \E o \in {Routed(r, t)} :
            /\ req' = r
            /\ resp' = o.resp
            /\ calls' = o.calls
            /\ messages' = o.db.messages
            /\ nextMessageID' = o.db.nextMessageID
            /\ recipients' = o.db.recipients
            /\ nextRecipientID' = o.db.nextRecipientID
            /\ queue' = o.db.queue
            /\ token' = t
            /\ acks' = IF r.op = "CreateContactMessage" /\ o.path \in {"spam", "stored"}
                       THEN acks \cup {[path |-> o.path, resp |-> o.resp]}
                       ELSE acks
    /\ UNCHANGED <<now, everSent, inflight>>

NextAuth == Next \/ WithoutValidToken

SpecAuth == Init /\ [][NextAuth]_vars

-----------------------------------------------------------------------------
(* Properties *)

Count(cs, fn) == Cardinality({i \in DOMAIN cs : cs[i].fn = fn})

IsSubmit(r) == r.op = "CreateContactMessage"

(* the honeypot field is in the payload and is not empty *)
HoneypotFilled(body) ==
    ~body.malformed /\ body.website.present /\ body.website.val # <<>>

(* the payload parses and every field passes its rule *)
ContactFieldsValid(body) == ~BindContactMessageCreate(body).err

Ack == Response(StatusCreated, ThankYou)

(* C1, as stated: every Submit whose honeypot field is non-empty makes no
   CreateContactMessage call and no Publish call, and is answered with the
   success acknowledgment (201). *)
C1_AnySpamAcknowledged ==
    (IsSubmit(req) /\ HoneypotFilled(req.body)) =>
        /\ Count(calls, "CreateContactMessage") = 0
        /\ Count(calls, "Publish") = 0
        /\ resp = Ack

(* C1, amended: a Submit whose honeypot field is non-empty never calls
   CreateContactMessage or Publish and leaves the store and the queue as they
   were; it is answered with the success acknowledgment (201) when its other
   fields pass validation, and with 400 when they do not. *)
C1_SpamSuppressed ==
    [][(req = Idle /\ IsSubmit(req') /\ HoneypotFilled(req'.body)) =>
          /\ calls' = <<>>
          /\ messages' = messages /\ nextMessageID' = nextMessageID
          /\ queue' = queue
          /\ ContactFieldsValid(req'.body) => resp' = Ack
          /\ ~ContactFieldsValid(req'.body) => resp'.status = StatusBadRequest
      ]_vars

C1_Witness ==
    /\ IsSubmit(req) /\ HoneypotFilled(req.body) /\ ContactFieldsValid(req.body)
    /\ resp = Ack /\ calls = <<>>

(* C2: a Submit with valid fields and an absent or empty honeypot calls
   CreateContactMessage exactly once, with status pending; when the store
   accepts it, exactly one row is added, with status pending and the id the
   store assigned, and Publish is called exactly once, whatever its outcome,
   with an event carrying that id; the queue never holds two events for it. *)
C2_OneRecordOnePublish ==
    [][(req = Idle /\ IsSubmit(req') /\ ContactFieldsValid(req'.body)
           /\ ~HoneypotFilled(req'.body)) =>
          /\ Count(calls', "CreateContactMessage") = 1
          /\ calls'[1].fn = "CreateContactMessage"
          /\ calls'[1].arg.Status = MessageStatusPending
          /\ Count(calls', "Publish") <= 1
          /\ calls'[1].err = NoErr =>
                /\ nextMessageID \notin DOMAIN messages
                /\ DOMAIN messages' = DOMAIN messages \cup {nextMessageID}
                /\ \A k \in DOMAIN messages : messages'[k] = messages[k]
                /\ messages'[nextMessageID].ID = nextMessageID
                /\ messages'[nextMessageID].Status = MessageStatusPending
                /\ Count(calls', "Publish") = 1
                /\ Len(calls') = 2 /\ calls'[2].fn = "Publish"
                /\ calls'[2].arg.MessageID = nextMessageID
                /\ Cardinality({i \in DOMAIN queue' :
                                  queue'[i].MessageID = nextMessageID}) <= 1
      ]_vars

C2_Witness ==
    /\ IsSubmit(req) /\ ContactFieldsValid(req.body) /\ ~HoneypotFilled(req.body)
    /\ Len(calls) = 2 /\ calls[2].fn = "Publish" /\ calls[2].err = NoErr
    /\ calls[2].arg.MessageID = 2
    /\ 2 \in DOMAIN messages /\ messages[2].Status = MessageStatusPending

(* C3: when Submit has stored the message, the response is the success
   acknowledgment (201, same body) whether Publish fails or succeeds, and the
   stored row is still there, exactly as it was passed to the repository. *)
C3_PublishFailureSwallowed ==
    (IsSubmit(req) /\ Count(calls, "Publish") = 1) =>
        /\ resp = Ack
        /\ LET id == calls[2].arg.MessageID
           IN  /\ id \in DOMAIN messages
               /\ messages[id] = [calls[1].arg EXCEPT !.ID = id]

C3_Witness ==
    /\ IsSubmit(req) /\ Len(calls) = 2
    /\ calls[2].fn = "Publish" /\ calls[2].err = ErrQueue
    /\ resp = Ack
    /\ calls[2].arg.MessageID \in DOMAIN messages

(* C4: when the repository create fails during Submit, the response is a
   server-side failure (500), Publish is not called, and neither the store
   nor the queue changes. *)
C4_CreateFailureAborts ==
    [][(req = Idle /\ IsSubmit(req') /\ calls' # <<>>
           /\ calls'[1].fn = "CreateContactMessage" /\ calls'[1].err # NoErr) =>
          /\ resp'.status = StatusInternalServerError
          /\ Count(calls', "Publish") = 0
          /\ queue' = queue
          /\ messages' = messages
      ]_vars

C4_Witness ==
    /\ IsSubmit(req) /\ Len(calls) = 1
    /\ calls[1].fn = "CreateContactMessage" /\ calls[1].err # NoErr
    /\ resp.status = StatusInternalServerError

(* C5: every response a caller has received to a spam-flagged Submit equals
   (status, body and headers) every response received to a Submit that was
   stored, whatever the two payloads were. *)
C5_SpamIndistinguishable ==
    \A a \in acks, b \in acks :
        (a.path = "spam" /\ b.path = "stored") => a.resp = b.resp

C5_Witness ==
    /\ \E a \in acks : a.path = "spam"
    /\ \E b \in acks : b.path = "stored"

IsCreateRecipient(r) == r.op = "CreateRecipient"
IsUpdateRecipient(r) == r.op = "UpdateRecipient"

(* the payload of the request is malformed or fails validation *)
PayloadRejected(r) ==
    \/ IsSubmit(r) /\ BindContactMessageCreate(r.body).err
    \/ IsCreateRecipient(r) /\ BindRecipientCreate(r.body).err
    \/ IsUpdateRecipient(r) /\ BindRecipientUpdate(r.body).err

(* C6, as stated: for Submit, Recipient Create and Recipient Update, a payload
   that fails validation or is malformed yields 400 and no repository call of
   any kind and no publisher call is made for the request. *)
C6_RejectedBeforeAnyCall ==
    PayloadRejected(req) => (resp.status = StatusBadRequest /\ calls = <<>>)

(* C6, amended: such a payload never writes: the store and the queue are left
   as they were and neither a create, an update nor a publish call is made.
   Submit and Recipient Create answer 400 without any repository call.
   Recipient Update parses the id and fetches the record before it reads the
   payload: its only call is GetRecipientByID, and it answers 400 when the id
   is invalid or the fetch succeeded, and 404 or 500 as the fetch failed. *)
C6_RejectedBeforeAnyWrite ==
    [][(req = Idle /\ PayloadRejected(req')) =>
          /\ UNCHANGED <<messages, recipients, nextMessageID, nextRecipientID, queue>>
          /\ \A i \in DOMAIN calls' : calls'[i].fn = "GetRecipientByID"
          /\ ~IsUpdateRecipient(req') =>
                (calls' = <<>> /\ resp'.status = StatusBadRequest)
          /\ IsUpdateRecipient(req') =>
                /\ Len(calls') <= 1
                /\ (calls' = <<>> \/ calls'[1].err = NoErr) =>
                      resp'.status = StatusBadRequest
                /\ (calls' # <<>> /\ calls'[1].err # NoErr) =>
                      resp'.status \in {StatusNotFound, StatusInternalServerError}
      ]_vars

C6_Witness ==
    /\ IsUpdateRecipient(req) /\ PayloadRejected(req)
    /\ Len(calls) = 1 /\ calls[1].fn = "GetRecipientByID" /\ calls[1].err = NoErr
    /\ resp.status = StatusBadRequest

(* C7: the length limits of Submit are inclusive.  A payload whose name has
   exactly 255, whose subject has exactly 500 or whose message has exactly
   10000 characters (the other fields valid) is passed to the repository
   unchanged and, when the store accepts it, stored and answered 201; one
   with 256, 501 or 10001 characters is answered 400 with no repository
   call. *)
C7_LengthLimitsInclusive ==
    (IsSubmit(req) /\ ~req.body.malformed) =>
        LET name    == StringField(req.body.name)
            subject == StringField(req.body.subject)
            message == StringField(req.body.message)
            atLimit == \/ Len(name) = NameMaxLen
                       \/ Len(subject) = SubjectMaxLen
                       \/ Len(message) = MessageMaxLen
            within  == /\ Len(name) \in 1..NameMaxLen
                       /\ Len(subject) \in 1..SubjectMaxLen
                       /\ Len(message) \in 1..MessageMaxLen
                       /\ IsEmail(StringField(req.body.email))
            over    == \/ Len(name) = NameMaxLen + 1
                       \/ Len(subject) = SubjectMaxLen + 1
                       \/ Len(message) = MessageMaxLen + 1
        IN  /\ (atLimit /\ within /\ ~HoneypotFilled(req.body)) =>
                /\ calls # <<>> /\ calls[1].fn = "CreateContactMessage"
                /\ calls[1].arg.Name = name
                /\ calls[1].arg.Subject = subject
                /\ calls[1].arg.Message = message
                /\ calls[1].err = NoErr =>
                      /\ resp.status = StatusCreated
                      /\ \E id \in DOMAIN messages :
                            /\ messages[id].Name = name
                            /\ messages[id].Subject = subject
                            /\ messages[id].Message = message
            /\ over => (resp.status = StatusBadRequest /\ calls = <<>>)

C7_Witness ==
    /\ IsSubmit(req)
    /\ Len(StringField(req.body.message)) = MessageMaxLen
    /\ resp.status = StatusCreated
    /\ \E id \in DOMAIN messages : Len(messages[id].Message) = MessageMaxLen

TakesID(r) ==
    r.op \in {"GetContactMessage", "GetRecipient", "UpdateRecipient", "DeleteRecipient"}

InvalidIDFormat == RespondError(StatusBadRequest, "Invalid ID format")

HasNonDigit(id) == \E i \in 1..Len(id) : id[i] \notin Digits

(* all digits, and larger than 1<<63 - 1 *)
Overflows(id) == ~HasNonDigit(id) /\ ~MagLeq(StripZeros(id), MaxInt64Mag)

(* C8, as stated: for GetMessage, Recipient Get, Recipient Update and
   Recipient Delete an identifier that is non-numeric, contains a non-digit
   character or overflows the numeric range yields 400 "Invalid ID format"
   and no repository call. *)
C8_NonDigitOrOverflowRejected ==
    (TakesID(req) /\ (HasNonDigit(req.id) \/ Overflows(req.id))) =>
        (resp = InvalidIDFormat /\ calls = <<>>)

Unsigned(id) == IF id # <<>> /\ Head(id) \in {"+", "-"} THEN Tail(id) ELSE id

(* not an optional sign followed by one or more decimal digits *)
NotDecimal(id) == Unsigned(id) = <<>> \/ HasNonDigit(Unsigned(id))

(* decimal, and outside -(1<<63) .. 1<<63 - 1 *)
OutOfInt64(id) ==
    /\ ~NotDecimal(id)
    /\ ~MagLeq(StripZeros(Unsigned(id)),
               IF Head(id) = "-" THEN MinInt64Mag ELSE MaxInt64Mag)

(* C8, amended: for GetMessage, Recipient Get, Recipient Update and Recipient
   Delete an identifier that is not an optional sign (+ or -) followed by
   decimal digits only, or whose value is outside the signed 64-bit range,
   yields 400 "Invalid ID format", no repository call is made and the store
   is unchanged. *)
C8_UnparsableRejected ==
    [][(req = Idle /\ TakesID(req') /\ (NotDecimal(req'.id) \/ OutOfInt64(req'.id))) =>
          /\ resp' = InvalidIDFormat
          /\ calls' = <<>>
          /\ UNCHANGED <<messages, recipients, nextMessageID, nextRecipientID, queue>>
      ]_vars

C8_Witness ==
    /\ req.op = "DeleteRecipient" /\ req.id = <<"-">> \o SubSeq(MinInt64Mag, 1, 18) \o <<"9">>
    /\ resp = InvalidIDFormat /\ calls = <<>>
    /\ recipients # <<>>

(* decimal, in range, and zero or negative *)
NotPositive(id) ==
    /\ ~NotDecimal(id) /\ ~OutOfInt64(id)
    /\ (StripZeros(Unsigned(id)) = <<>> \/ Head(id) = "-")

(* C9: the identifiers 0 and any negative integer yield 400 "Invalid ID
   format" before any repository call, for every operation that takes an
   id. *)
C9_NonPositiveRejected ==
    (TakesID(req) /\ NotPositive(req.id)) =>
        (resp = InvalidIDFormat /\ calls = <<>>)

(* C10: Recipient Create passes to the repository, and the store then holds,
   isActive = true when the payload omits isActive and exactly the supplied
   value when it is present. *)
C10_IsActiveDefault ==
    (IsCreateRecipient(req) /\ calls # <<>>) =>
        LET want == IF req.body.isActive.present THEN req.body.isActive.val ELSE TRUE
        IN  /\ calls[1].fn = "CreateRecipient"
            /\ calls[1].arg.IsActive = want
            /\ calls[1].err = NoErr =>
                  /\ resp.status = StatusCreated
                  /\ resp.body.recipient.ID \in DOMAIN recipients
                  /\ recipients[resp.body.recipient.ID].IsActive = want
                  /\ resp.body.recipient.IsActive = want

C10_Witness ==
    /\ IsCreateRecipient(req) /\ req.body.isActive = Ptr(FALSE)
    /\ resp.status = StatusCreated
    /\ recipients[resp.body.recipient.ID].IsActive = FALSE

(* the value a field has after a merge: the payload's when present *)
Merged(field, old) == IF field.present THEN field.val ELSE old

(* C11: Recipient Update is a merge.  When an update is persisted, the
   stored record, the record passed to the repository and the record in the
   response have, for each of email, name and isActive, the payload value
   when the field is present in the payload and the value the store held
   before when it is absent; the identifier is the one the record had, and
   no other record is touched. *)
C11_UpdateIsMerge ==
    [][(req = Idle /\ IsUpdateRecipient(req') /\ resp'.status = StatusOK) =>
          LET k   == resp'.body.recipient.ID
              b   == req'.body
          IN  /\ k \in DOMAIN recipients
              /\ ParseInt(req'.id).n = I64(k)
              /\ DOMAIN recipients' = DOMAIN recipients
              /\ \A j \in DOMAIN recipients \ {k} : recipients'[j] = recipients[j]
              /\ recipients'[k].ID = k
              /\ recipients'[k].Email = Merged(b.email, recipients[k].Email)
              /\ recipients'[k].Name = Merged(b.name, recipients[k].Name)
              /\ recipients'[k].IsActive = Merged(b.isActive, recipients[k].IsActive)
              /\ calls'[Len(calls')].fn = "UpdateRecipient"
              /\ calls'[Len(calls')].arg = recipients'[k]
              /\ resp'.body.recipient = recipients'[k]
      ]_vars

C11_Witness ==
    /\ IsUpdateRecipient(req) /\ resp.status = StatusOK
    /\ req.body.name = Ptr(Al) /\ req.body.email = Nil /\ req.body.isActive = Ptr(FALSE)
    /\ \E k \in DOMAIN recipients :
          /\ recipients[k].Name = Al
          /\ recipients[k].Email = EmailA
          /\ recipients[k].IsActive = FALSE

(* C12: Recipient Update is idempotent.  In the state a persisted update
   leaves, the same request (same id, same partial payload) applied again
   is persisted as well, answers with the same record and leaves the store
   exactly as the first application left it. *)
C12_UpdateIdempotent ==
    (IsUpdateRecipient(req) /\ resp.status = StatusOK) =>
        LET again == UpdateRecipient(req.id, req.body, FALSE, FALSE)
        IN  /\ again.path = "stored"
            /\ again.resp = resp
            /\ again.db.recipients = recipients
            /\ again.db = Db

C12_Witness ==
    /\ IsUpdateRecipient(req) /\ resp.status = StatusOK
    /\ req.body.email = Ptr(EmailB) /\ req.body.name = Nil /\ req.body.isActive = Ptr(FALSE)
    /\ \E k \in DOMAIN recipients :
          /\ recipients[k].Email = EmailB
          /\ recipients[k].Name = Jo
          /\ ~recipients[k].IsActive
    /\ UpdateRecipient(req.id, req.body, FALSE, FALSE).db.recipients = recipients

(* a stored recipient is one the validation of Create would accept *)
WellFormedRecipient(r) ==
    /\ \E i \in 1..Len(r.Email) :
          /\ r.Email[i] = "@"
          /\ i > 1 /\ i < Len(r.Email)
          /\ \E j \in (i + 1)..Len(r.Email) : r.Email[j] = "."
          /\ \A j \in 1..Len(r.Email) : j # i => r.Email[j] \notin {"@", " "}
    /\ Len(r.Name) >= 1 /\ Len(r.Name) <= 255

(* C13: after any sequence of Create, Update and Delete requests every
   stored recipient has a syntactically valid email and a name of 1 to 255
   characters, and an Update that is rejected (any answer other than 200)
   leaves the stored records unchanged. *)
C13_StoredRecipientsValid ==
    /\ [](\A k \in DOMAIN recipients : WellFormedRecipient(recipients[k]))
    /\ [][(req = Idle /\ IsUpdateRecipient(req') /\ resp'.status # StatusOK) =>
             recipients' = recipients]_vars

C13_Witness ==
    /\ IsUpdateRecipient(req) /\ resp.status = StatusBadRequest
    /\ req.body.email = Ptr(NotAnEmail) /\ req.body.name = Ptr(Al)
    /\ Len(calls) = 1
    /\ \E k \in DOMAIN recipients :
          ParseInt(req.id).n = I64(k) /\ recipients[k].Name = Al
               /\ recipients[k].Email = EmailB

(* C14: in a Recipient Update payload an email that is present and empty is
   not treated as an absent field.  For an id the store holds, the update
   is rejected with 400 and the store is left as it was (the stored email
   is neither overwritten with the empty string nor is the rest of the
   payload applied), while the same payload without the email field would
   have been persisted when its other fields are valid. *)
C14_EmptyEmailRejected ==
    [][(/\ req = Idle /\ IsUpdateRecipient(req')
        /\ ~req'.body.malformed /\ req'.body.email = Ptr(<<>>)
        /\ calls' # <<>> /\ calls'[1].err = NoErr) =>
          /\ resp'.status = StatusBadRequest
          /\ Len(calls') = 1
          /\ recipients' = recipients
          /\ \A k \in DOMAIN recipients' : recipients'[k].Email # <<>>
          /\ (~req'.body.name.present \/ req'.body.name.val # <<>>) =>
                UpdateRecipient(req'.id, [req'.body EXCEPT !.email = Nil],
                                FALSE, FALSE).path = "stored"
      ]_vars

C14_Witness ==
    /\ IsUpdateRecipient(req) /\ resp.status = StatusBadRequest
    /\ req.body.email = Ptr(<<>>) /\ req.body.name = Ptr(Al)
    /\ Len(calls) = 1 /\ calls[1].err = NoErr
    /\ \E k \in DOMAIN recipients :
          ParseInt(req.id).n = I64(k) /\ recipients[k].Name = Jo

(* the id is one ParseInt accepts *)
ParsableID(id) == ~NotDecimal(id) /\ ~OutOfInt64(id)

(* the decimal value of a parsable id is the key k *)
Denotes(id, k) ==
    /\ ParsableID(id) /\ Head(id) # "-"
    /\ StripZeros(Unsigned(id)) = NatDigits(k)

Held(table, id) == \E k \in DOMAIN table : Denotes(id, k)

IsNotFoundError(err) == err.cause = "record not found"

(* C15: Recipient Update with a parsable id fetches the record first.  When
   the store does not hold the id (and the database answers) the fetch
   reports record-not-found and the answer is 404; when the fetch fails in
   any other way the answer is 500; in both cases UpdateRecipient is never
   called on the repository and the store is unchanged. *)
C15_UpdateFetchFailure ==
    [][(req = Idle /\ IsUpdateRecipient(req') /\ ParsableID(req'.id)) =>
          /\ calls' # <<>> /\ calls'[1].fn = "GetRecipientByID"
          /\ (~Held(recipients, req'.id) /\ calls'[1].err.cause # "database error") =>
                IsNotFoundError(calls'[1].err)
          /\ Held(recipients, req'.id) => ~IsNotFoundError(calls'[1].err)
          /\ IsNotFoundError(calls'[1].err) =>
                resp' = RespondError(StatusNotFound, "Recipient not found")
          /\ (calls'[1].err # NoErr /\ ~IsNotFoundError(calls'[1].err)) =>
                resp'.status = StatusInternalServerError
          /\ calls'[1].err # NoErr =>
                /\ Len(calls') = 1
                /\ UNCHANGED <<messages, recipients, nextMessageID, nextRecipientID, queue>>
      ]_vars

C15_Witness ==
    /\ IsUpdateRecipient(req) /\ req.id = <<"2">> /\ req.body.name = Ptr(Al)
    /\ ~req.body.malformed
    /\ DOMAIN recipients = {1}
    /\ resp.status = StatusNotFound
    /\ Len(calls) = 1

IsDeleteRecipient(r) == r.op = "DeleteRecipient"

(* C16: Recipient Delete with a parsable id calls the repository once.  It
   answers 404 exactly when the repository reports that no row was affected,
   which is when the store does not hold the id, and the store is then
   unchanged; it answers 204 with no body when the row was deleted, the
   other rows being untouched; and it answers 500, the store unchanged, on
   any other repository error. *)
C16_DeleteOutcomes ==
    [][(req = Idle /\ IsDeleteRecipient(req') /\ ParsableID(req'.id)) =>
          LET err == calls'[1].err
          IN  /\ Len(calls') = 1 /\ calls'[1].fn = "DeleteRecipient"
              /\ UNCHANGED <<messages, nextMessageID, nextRecipientID, queue>>
              /\ (resp'.status = StatusNotFound) <=> IsNotFoundError(err)
              /\ IsNotFoundError(err) =>
                    ~Held(recipients, req'.id) /\ recipients' = recipients
              /\ (~Held(recipients, req'.id) /\ err.cause # "database error") =>
                    IsNotFoundError(err)
              /\ err = NoErr =>
                    /\ resp' = Response(StatusNoContent, [empty |-> TRUE])
                    /\ \E k \in DOMAIN recipients :
                          /\ Denotes(req'.id, k)
                          /\ DOMAIN recipients' = DOMAIN recipients \ {k}
                          /\ \A j \in DOMAIN recipients' : recipients'[j] = recipients[j]
              /\ (err # NoErr /\ ~IsNotFoundError(err)) =>
                    /\ resp'.status = StatusInternalServerError
                    /\ recipients' = recipients
      ]_vars

C16_Witness ==
    /\ IsDeleteRecipient(req) /\ req.id = <<"1">>
    /\ resp.status = StatusNotFound
    /\ recipients = <<>> /\ nextRecipientID = 2

IsGetByID(r) == r.op \in {"GetContactMessage", "GetRecipient"}

TableOf(r) == IF r.op = "GetContactMessage" THEN messages ELSE recipients

RecordIn(r, body) ==
    IF r.op = "GetContactMessage" THEN body.contactMessage ELSE body.recipient

(* C17: GetMessage and Recipient Get with a parsable id make one repository
   call and change nothing.  The answer is 200 with the full stored record
   when the store holds the id and the database answers, 404 when the
   repository signals record-not-found (which reaches the handler wrapped
   in the repository's own error), and 500 on any other repository failure;
   it is never 400. *)
C17_GetOutcomes ==
    [][(req = Idle /\ IsGetByID(req') /\ ParsableID(req'.id)) =>
          LET err == calls'[1].err
              t   == TableOf(req')
          IN  /\ Len(calls') = 1
              /\ calls'[1].fn \in {"GetContactMessageByID", "GetRecipientByID"}
              /\ UNCHANGED <<messages, recipients, nextMessageID, nextRecipientID, queue>>
              /\ resp'.status \in {StatusOK, StatusNotFound, StatusInternalServerError}
              /\ resp'.status # StatusBadRequest
              /\ (Held(t, req'.id) /\ err.msg = "") =>
                    /\ resp'.status = StatusOK
                    /\ \E k \in DOMAIN t :
                          Denotes(req'.id, k) /\ RecordIn(req', resp'.body) = t[k]
              /\ (~Held(t, req'.id) /\ err.cause # "database error") =>
                    /\ err.msg # "" /\ err.msg # "record not found"
                    /\ resp'.status = StatusNotFound
              /\ err.cause = "database error" =>
                    resp'.status = StatusInternalServerError
              /\ resp'.status = StatusOK => err = NoErr
      ]_vars

C17_Witness ==
    /\ req.op = "GetContactMessage" /\ req.id = <<"2">>
    /\ DOMAIN messages = {1}
    /\ calls[1].err.cause = "record not found"
    /\ calls[1].err.msg = "failed to get contact message by id"
    /\ resp = RespondError(StatusNotFound, "Message not found")

(* C18: a Recipient Create that the store accepts answers 201 with the
   created record and a Location reference made of the collection path and
   the decimal form of the identifier the store assigned to the new record;
   when the repository create fails the answer is 500 and no Location
   reference is set (nor is one set on a payload that is rejected). *)
C18_CreatedLocation ==
    [][(req = Idle /\ IsCreateRecipient(req')) =>
          /\ (calls' # <<>> /\ calls'[1].err = NoErr) =>
                LET k == nextRecipientID
                IN  /\ resp'.status = StatusCreated
                    /\ k \notin DOMAIN recipients
                    /\ DOMAIN recipients' = DOMAIN recipients \cup {k}
                    /\ recipients'[k].ID = k
                    /\ resp'.body.recipient = recipients'[k]
                    /\ resp'.location.set
                    /\ resp'.location.path = "/api/v1/recipients"
                    /\ Denotes(resp'.location.id, k)
                    /\ resp'.location.id = StripZeros(resp'.location.id)
          /\ (calls' # <<>> /\ calls'[1].err # NoErr) =>
                /\ resp'.status = StatusInternalServerError
                /\ resp'.location = NoLocation
                /\ recipients' = recipients
          /\ resp'.status # StatusCreated => resp'.location = NoLocation
      ]_vars

C18_Witness ==
    /\ IsCreateRecipient(req) /\ resp.status = StatusCreated
    /\ resp.location = [set |-> TRUE, path |-> "/api/v1/recipients", id |-> <<"1">>]
    /\ resp.body.recipient.ID = 1
    /\ 1 \in DOMAIN recipients

(* the step is a call of UpdateContactMessageStatus *)
StatusCall == req = Idle /\ req'.op = "UpdateContactMessageStatus"

(* the call updated the row of message k, giving it the status st *)
Updated(k, st) ==
    /\ StatusCall
    /\ calls'[1].err = NoErr
    /\ calls'[1].arg.id = [neg |-> FALSE, mag |-> NatDigits(k)]
    /\ calls'[1].arg.status = st

(* C19, as stated: attempts increases by exactly 1 each time the status
   changes from a non-failed status to failed and is unchanged by every
   other call of UpdateContactMessageStatus. *)
C19_CountsTransitionsOnly ==
    [][StatusCall =>
          \A k \in DOMAIN messages :
              IF Updated(k, "failed") /\ messages[k].Status # "failed"
              THEN messages'[k].Attempts = messages[k].Attempts + 1
              ELSE messages'[k].Attempts = messages[k].Attempts
      ]_vars

(* C19, amended: attempts increases by exactly 1 on every call of
   UpdateContactMessageStatus that updates the message with status failed,
   whatever status the message had before (failed included), and is
   unchanged by every other call and by every request of the API; a new
   message starts with 0 attempts. *)
C19_CountsFailedCalls ==
    [][/\ \A k \in DOMAIN messages :
              /\ k \in DOMAIN messages'
              /\ IF Updated(k, "failed")
                 THEN messages'[k].Attempts = messages[k].Attempts + 1
                 ELSE messages'[k].Attempts = messages[k].Attempts
       /\ \A k \in DOMAIN messages' \ DOMAIN messages : messages'[k].Attempts = 0
      ]_vars

C19_Witness ==
    /\ req.op = "UpdateContactMessageStatus"
    /\ calls[1].arg.status = "failed" /\ calls[1].err = NoErr
    /\ \E k \in DOMAIN messages :
          /\ req.id = NatDigits(k)
          /\ messages[k].Status = "failed"
          /\ messages[k].Attempts = 2
          /\ now = 2

(* C20: the sent timestamp is set only by a call with status sent.  A
   message whose status has never been sent has no sent timestamp, and a
   call of UpdateContactMessageStatus with status pending or failed (like
   every request of the API) leaves the timestamp of every message as it
   was; a call that updates a message with status sent stamps it with the
   time of the call. *)
C20_SentAtOnlyWhenSent ==
    /\ [](\A k \in DOMAIN messages : k \notin everSent => ~messages[k].SentAt.present)
    /\ [][/\ \A k \in DOMAIN messages :
                 IF Updated(k, "sent")
                 THEN messages'[k].SentAt = [present |-> TRUE, val |-> now]
                 ELSE messages'[k].SentAt = messages[k].SentAt
          /\ \A k \in DOMAIN messages' \ DOMAIN messages : ~messages'[k].SentAt.present
         ]_vars

C20_Witness ==
    /\ req.op = "UpdateContactMessageStatus"
    /\ calls[1].arg.status = "failed" /\ calls[1].err = NoErr
    /\ \E k \in DOMAIN messages :
          /\ req.id = NatDigits(k)
          /\ k \in everSent
          /\ messages[k].Status = "failed"
          /\ messages[k].SentAt = [present |-> TRUE, val |-> 0]
          /\ now = 2

(* C21: in every reachable state the status of every stored message is one
   of pending, sent or failed: Submit stores pending, and no call of
   UpdateContactMessageStatus can store any other value. *)
C21_StatusEnumerated ==
    \A k \in DOMAIN messages : messages[k].Status \in {"pending", "sent", "failed"}

(* what Submit stored of a message: its id and its content *)
Content(m) == <<m.ID, m.Name, m.Email, m.Subject, m.Message>>

(* C22: no operation deletes a message.  The set of stored message ids never
   shrinks and the content stored under an id never changes, whatever is
   done afterwards (further submissions, status updates, reads); every id
   handed out so far is still stored, and GetMessage of it answers 200 with
   the stored record. *)
C22_MessagesNeverDeleted ==
    /\ [](/\ DOMAIN messages = 1..(nextMessageID - 1)
          /\ \A k \in DOMAIN messages :
                GetContactMessage(NatDigits(k), FALSE).resp
                    = Response(StatusOK, [contactMessage |-> messages[k]]))
    /\ [][\A k \in DOMAIN messages :
              k \in DOMAIN messages' /\ Content(messages'[k]) = Content(messages[k])
         ]_vars

C22_Witness ==
    /\ DOMAIN messages = {1, 2}
    /\ messages[1].Status = "sent" /\ messages[1].Attempts = 1
    /\ now = 3
    /\ req.op = "GetContactMessages"
    /\ GetContactMessage(<<"1">>, FALSE).resp.status = StatusOK

(* C23: UpdateContactMessageStatus is not reachable through the HTTP API.
   No public or admin request (Submit, ListMessages, GetMessage, recipient
   create, read, update, delete) calls it or changes a stored message, so
   every message stays as Submit created it: pending, with no attempts, no
   last error and no sent timestamp. *)
C23_ApiLeavesStatusAlone ==
    /\ [](/\ \A i \in DOMAIN calls : calls[i].fn # "UpdateContactMessageStatus"
          /\ \A k \in DOMAIN messages :
                /\ messages[k].Status = "pending"
                /\ messages[k].Attempts = 0
                /\ ~messages[k].LastError.present
                /\ ~messages[k].SentAt.present)
    /\ [][\A k \in DOMAIN messages :
              k \in DOMAIN messages' /\ messages'[k] = messages[k]]_vars

C23_Witness ==
    /\ DOMAIN messages = {1, 2}
    /\ messages[1].Status = "pending" /\ messages[2].Status = "pending"
    /\ IsUpdateRecipient(req) /\ resp.status = StatusOK
    /\ now = 0

(* the record an Update under way writes: the payload's fields over the
   record it read *)
MergedRecord(sl) ==
    [sl.existing EXCEPT !.Email    = Merged(sl.body.email, sl.existing.Email),
                        !.Name     = Merged(sl.body.name, sl.existing.Name),
                        !.IsActive = Merged(sl.body.isActive, sl.existing.IsActive)]

(* the Update of admin a has persisted, and no Update of the same record
   has persisted after it *)
PersistedLast(a) ==
    /\ inflight[a].pc = "done" /\ inflight[a].at > 0
    /\ inflight[a].resp.status = StatusOK
    /\ \A b \in Admins \ {a} :
          ~(/\ inflight[b].existing.ID = inflight[a].existing.ID
            /\ inflight[b].resp.status = StatusOK
            /\ inflight[b].at > inflight[a].at)

(* C24: concurrent Recipient Updates are last-write-wins.  When Update
   requests on the same recipient interleave, the persist of each one writes
   the merge of its payload with the record it fetched, stale values
   included, whatever was persisted in between; a stale read alone never
   makes the persist fail (the only failures are a store fault and a record
   deleted meanwhile, and there is no conflict answer); and while the record
   is stored it equals the merged record of the Update that persisted
   last. *)
C24_LastWriteWins ==
    /\ [](\A a \in Admins :
            (PersistedLast(a) /\ inflight[a].existing.ID \in DOMAIN recipients) =>
                recipients[inflight[a].existing.ID] = MergedRecord(inflight[a]))
    /\ [][\A a \in Admins :
            (inflight[a].pc = "fetched" /\ inflight'[a].pc = "done") =>
                LET k    == inflight[a].existing.ID
                    sl   == inflight'[a]
                    last == sl.calls[Len(sl.calls)]
                IN  /\ last.fn = "UpdateRecipient"
                    /\ last.arg = MergedRecord(inflight[a])
                    /\ sl.resp.status \in {StatusOK, StatusInternalServerError}
                    /\ sl.resp.status = StatusOK <=> last.err = NoErr
                    /\ last.err.cause \in {NoErr.cause, ErrDatabase.cause, ErrRecordNotFound.cause}
                    /\ last.err.cause = ErrRecordNotFound.cause => k \notin DOMAIN recipients
                    /\ sl.resp.status = StatusOK =>
                          /\ sl.resp.body.recipient = MergedRecord(inflight[a])
                          /\ DOMAIN recipients' = DOMAIN recipients
                          /\ recipients'[k] = MergedRecord(inflight[a])
                          /\ \A j \in DOMAIN recipients \ {k} : recipients'[j] = recipients[j]
         ]_vars

C24_Witness ==
    /\ inflight["admin1"].pc = "done" /\ inflight["admin2"].pc = "done"
    /\ inflight["admin1"].resp.status = StatusOK
    /\ inflight["admin2"].resp.status = StatusOK
    /\ inflight["admin1"].at = 1 /\ inflight["admin2"].at = 2
    /\ inflight["admin1"].body.name = Ptr(Al)
    /\ inflight["admin2"].body.email = Ptr(EmailB)
    /\ inflight["admin1"].existing = inflight["admin2"].existing
    /\ inflight["admin2"].existing.Name = Jo
    /\ recipients[1].Name = Jo /\ recipients[1].Email = EmailB

(* C27: a recipient deleted after an Update has fetched it and before that
   Update persists is not recreated by the Update: after the persist the
   store holds no record under that id, and the Update answers 404. *)
C27_UpdateAfterDeleteNotFound ==
    [][\A a \in Admins :
          (/\ inflight[a].pc = "fetched" /\ inflight'[a].pc = "done"
           /\ inflight[a].existing.ID \notin DOMAIN recipients) =>
              /\ inflight[a].existing.ID \notin DOMAIN recipients'
              /\ inflight'[a].resp.status = StatusNotFound
      ]_vars

(* the request is for a /messages or a /recipients route *)
IsAdminRoute(r) ==
    r.op \in {"GetContactMessages", "GetContactMessage", "GetRecipients",
              "GetRecipient", "CreateRecipient", "UpdateRecipient", "DeleteRecipient"}

Store == <<messages, nextMessageID, recipients, nextRecipientID, queue>>

(* C26: POST /contact runs its handler whatever token the request carries,
   none included: a valid submission is stored.  Every /messages and
   /recipients route runs its handler only when token validation succeeded
   for that request: with no token or one that fails validation the answer
   is 401, no repository call is made and nothing stored changes, so a
   request of these routes that made a repository call or got any other
   answer had a valid token. *)
C26_AdminRoutesNeedToken ==
    /\ []((IsAdminRoute(req) /\ (calls # <<>> \/ resp # Unauthorized)) =>
              ValidateToken(token))
    /\ [][(req = Idle /\ IsAdminRoute(req') /\ ~ValidateToken(token')) =>
              /\ resp' = Unauthorized
              /\ calls' = <<>>
              /\ Store' = Store]_vars
    /\ [][(/\ req = Idle /\ IsSubmit(req') /\ ~ValidateToken(token')
           /\ ContactFieldsValid(req'.body) /\ ~HoneypotFilled(req'.body)) =>
              /\ calls' # <<>>
              /\ calls'[1].fn = "CreateContactMessage"
              /\ (calls'[1].err = NoErr =>
                    /\ resp'.status = StatusCreated
                    /\ nextMessageID' = nextMessageID + 1)]_vars

C26_Witness ==
    /\ req = Request("DeleteRecipient", <<"1">>, NoBody)
    /\ token = "expired"
    /\ resp.status = StatusUnauthorized
    /\ calls = <<>>
    /\ 1 \in DOMAIN recipients
    /\ 1 \in DOMAIN messages

(* the four content fields of a record are those of the payload *)
Verbatim(m, body) ==
    /\ m.Name = StringField(body.name)
    /\ m.Email = StringField(body.email)
    /\ m.Subject = StringField(body.subject)
    /\ m.Message = StringField(body.message)

(* C25: content is stored verbatim.  Every Submit whose payload passes
   validation and is not spam reaches the repository, whatever characters
   its fields hold, and the name, email, subject and message passed to the
   repository, stored under the new id and returned by the listing equal
   the submitted values character for character: SQL and HTML fragments,
   control characters, a null byte and spaces at the ends are neither
   escaped, removed nor trimmed. *)
C25_StoredVerbatim ==
    /\ [][(req = Idle /\ IsSubmit(req')) =>
             /\ (ContactFieldsValid(req'.body) /\ ~HoneypotFilled(req'.body)) =>
                    calls' # <<>>
             /\ calls' # <<>> =>
                    /\ calls'[1].fn = "CreateContactMessage"
                    /\ Verbatim(calls'[1].arg, req'.body)
                    /\ calls'[1].err = NoErr =>
                          /\ DOMAIN messages' = DOMAIN messages \cup {nextMessageID}
                          /\ Verbatim(messages'[nextMessageID], req'.body)
         ]_vars
    /\ []((req.op = "GetContactMessages" /\ resp.status = StatusOK) =>
             \A k \in DOMAIN messages :
                 \E i \in DOMAIN resp.body.list, body \in ContentBodies :
                     /\ resp.body.list[i] = messages[k]
                     /\ Verbatim(resp.body.list[i], body))
    /\ [][\A k \in DOMAIN messages : Content(messages'[k]) = Content(messages[k])]_vars

C25_Witness ==
    /\ req.op = "GetContactMessages" /\ resp.status = StatusOK
    /\ DOMAIN messages = {1, 2}
    /\ messages[1].Name = <<"U", NUL, "N">>
    /\ messages[1].Subject = <<"S", "\n", "w">>
    /\ messages[1].Message = <<"M", "\t", "t">>
    /\ messages[2].Name = <<" ", "J", "o", " ">>
    /\ messages[2].Message = <<"o", " ">>
    /\ \E i \in DOMAIN resp.body.list : resp.body.list[i] = messages[1]

(* an id that was handed out and is no longer stored *)
Gone(k) == k \in 1..(nextRecipientID - 1) /\ k \notin DOMAIN recipients

(* Get, Update with any payload and Delete of the id answer 404 and change
   nothing *)
AllNotFound(id) ==
    /\ GetRecipient(id, FALSE).resp.status = StatusNotFound
    /\ DeleteRecipient(id, FALSE).resp.status = StatusNotFound
    /\ DeleteRecipient(id, FALSE).db = Db
    /\ \A body \in RecipientUpdateBodies :
          /\ UpdateRecipient(id, body, FALSE, FALSE).resp.status = StatusNotFound
          /\ UpdateRecipient(id, body, FALSE, FALSE).db = Db

(* C28: a successful Recipient Delete of id i removes exactly that
   recipient.  The delete that answers 204 takes the one record with that id
   out of the store and leaves every other recipient, and everything else
   stored, as it was; in the state it leaves, and ever after, Get(i),
   Update(i) with any payload and a second Delete(i) answer 404. *)
C28_DeleteRemovesExactlyOne ==
    /\ [][(req = Idle /\ IsDeleteRecipient(req') /\ resp'.status = StatusNoContent) =>
             \E k \in DOMAIN recipients :
                 /\ Denotes(req'.id, k)
                 /\ DOMAIN recipients' = DOMAIN recipients \ {k}
                 /\ \A j \in DOMAIN recipients' : recipients'[j] = recipients[j]
                 /\ nextRecipientID' = nextRecipientID
                 /\ <<messages', nextMessageID', queue'>> = <<messages, nextMessageID, queue>>
         ]_vars
    /\ []((IsDeleteRecipient(req) /\ resp.status = StatusNoContent) => AllNotFound(req.id))
    /\ [](\A k \in 1..MaxStored : Gone(k) => AllNotFound(NatDigits(k)))

C28_Witness ==
    /\ IsDeleteRecipient(req) /\ resp.status = StatusNoContent
    /\ req.id = <<"1">>
    /\ DOMAIN recipients = {2}
    /\ recipients[2].Name = Al /\ recipients[2].IsActive = TRUE
    /\ GetRecipient(<<"1">>, FALSE).resp.status = StatusNotFound
    /\ GetRecipient(<<"2">>, FALSE).resp.status = StatusOK

ActiveIDs == {k \in DOMAIN recipients : recipients[k].IsActive = TRUE}

(* the list holds each of the records of ids once, and nothing else *)
ListsExactly(list, ids) ==
    /\ Len(list) = Cardinality(ids)
    /\ \A k \in ids : \E i \in DOMAIN list : list[i] = recipients[k]

(* C29: GetActiveRecipients returns exactly the stored recipients whose
   isActive is true, each once and in name order: every one of them is in
   the list GetAllRecipients returns, no inactive recipient is in it and no
   active one is missing.  So a recipient just created or updated with
   isActive false is absent from it, and one just switched to true is in
   it. *)
C29_ActiveExactly ==
    /\ (req.op = "GetActiveRecipients" /\ calls[1].err = NoErr) =>
          /\ ListsExactly(resp.body.list, ActiveIDs)
          /\ \A i, j \in DOMAIN resp.body.list :
                i < j => StrLeq(resp.body.list[i].Name, resp.body.list[j].Name)
    /\ \A order \in NameOrders(DOMAIN recipients) :
          LET active == Repo_GetActiveRecipients(order, FALSE).list
              all    == Repo_GetAllRecipients(order, FALSE).list
          IN  /\ ListsExactly(active, ActiveIDs)
              /\ ListsExactly(all, DOMAIN recipients)
              /\ \A i \in DOMAIN active : \E j \in DOMAIN all : all[j] = active[i]
              /\ \A j \in DOMAIN all :
                    all[j].IsActive <=> \E i \in DOMAIN active : active[i] = all[j]
              /\ ((IsCreateRecipient(req) \/ IsUpdateRecipient(req))
                     /\ resp.status \in {StatusCreated, StatusOK}) =>
                    (resp.body.recipient.IsActive <=>
                        \E i \in DOMAIN active : active[i] = resp.body.recipient)

C29_Witness ==
    /\ req.op = "GetActiveRecipients" /\ calls[1].err = NoErr
    /\ DOMAIN recipients = {1, 2}
    /\ recipients[1].Name = Jo /\ recipients[1].IsActive = FALSE
    /\ recipients[2].Name = Al /\ recipients[2].IsActive = TRUE
    /\ resp.body.list = <<recipients[2]>>

====
